---------------------------- MODULE Spec2Model ----------------------------
(***************************************************************************)
(* Model of blocks/category-products-lister/category-products-lister.js:   *)
(* the decorate pipeline (resolve the folder reference and the tags, clear *)
(* the block, render the tag header and the grid, fetch with the legacy or *)
(* the category-filtered query, render the cards or the empty message) and *)
(* the click handler buildCard attaches.                                   *)
(*                                                                         *)
(* A JavaScript string is a sequence of one-character strings, so that     *)
(* startsWith, endsWith, includes, split, trim, replace, toUpperCase and   *)
(* encodeURIComponent are computed character by character.                 *)
(***************************************************************************)
EXTENDS Integers, Sequences, FiniteSets, TLC

-----------------------------------------------------------------------------
(* String primitives of the JavaScript runtime the block uses.             *)

\* String.prototype.startsWith
StartsWith(s, p) ==
  Len(s) >= Len(p) /\ SubSeq(s, 1, Len(p)) = p

\* String.prototype.endsWith
EndsWith(s, p) ==
  Len(s) >= Len(p) /\ SubSeq(s, Len(s) - Len(p) + 1, Len(s)) = p

\* String.prototype.includes
Includes(s, p) ==
  \E i \in 1..(Len(s) - Len(p) + 1) : SubSeq(s, i, i + Len(p) - 1) = p

\* 1-based position of the first occurrence of character c in s, 0 if none
IndexOfChar(s, c) ==
  IF \E i \in 1..Len(s) : s[i] = c
  THEN CHOOSE i \in 1..Len(s) : s[i] = c /\ \A j \in 1..(i - 1) : s[j] # c
  ELSE 0

\* String.prototype.lastIndexOf for a one-character needle: the 0-based
\* index of the last occurrence, -1 if none
LastIndexOf(s, c) ==
  IF \E i \in 1..Len(s) : s[i] = c
  THEN (CHOOSE i \in 1..Len(s) : s[i] = c /\ \A j \in (i + 1)..Len(s) : s[j] # c) - 1
  ELSE -1

\* String.prototype.substring(0, end): a negative end counts as 0
Substring0(s, end) ==
  IF end <= 0 THEN << >> ELSE SubSeq(s, 1, IF end > Len(s) THEN Len(s) ELSE end)

\* String.prototype.split for a one-character separator
RECURSIVE Split(_, _)
Split(s, sep) ==
  LET i == IndexOfChar(s, sep)
  IN IF i = 0 THEN <<s>>
     ELSE <<SubSeq(s, 1, i - 1)>> \o Split(SubSeq(s, i + 1, Len(s)), sep)

\* Array.prototype.join
RECURSIVE Join(_, _)
Join(list, sep) ==
  IF Len(list) = 0 THEN << >>
  ELSE IF Len(list) = 1 THEN list[1]
  ELSE list[1] \o sep \o Join(Tail(list), sep)

\* the white space of the modelled alphabet
IsSpace(c) == c = " "

\* String.prototype.trim
RECURSIVE TrimStart(_)
TrimStart(s) ==
  IF Len(s) > 0 /\ IsSpace(s[1]) THEN TrimStart(Tail(s)) ELSE s

RECURSIVE TrimEnd(_)
TrimEnd(s) ==
  IF Len(s) > 0 /\ IsSpace(s[Len(s)]) THEN TrimEnd(SubSeq(s, 1, Len(s) - 1)) ELSE s

Trim(s) == TrimEnd(TrimStart(s))

LowerCase == <<"a","b","c","d","e","f","g","h","i","j","k","l","m","n","o","p","q","r","s","t","u","v","w","x","y","z">>
UpperCase == <<"A","B","C","D","E","F","G","H","I","J","K","L","M","N","O","P","Q","R","S","T","U","V","W","X","Y","Z">>

IsLower(c) == \E i \in 1..Len(LowerCase) : LowerCase[i] = c
IsUpper(c) == \E i \in 1..Len(UpperCase) : UpperCase[i] = c

ToUpperChar(c) ==
  IF IsLower(c) THEN UpperCase[CHOOSE i \in 1..Len(LowerCase) : LowerCase[i] = c] ELSE c

ToLowerChar(c) ==
  IF IsUpper(c) THEN LowerCase[CHOOSE i \in 1..Len(UpperCase) : UpperCase[i] = c] ELSE c

\* String.prototype.toUpperCase
ToUpperCase(s) == [i \in 1..Len(s) |-> ToUpperChar(s[i])]

ToLowerCase(s) == [i \in 1..Len(s) |-> ToLowerChar(s[i])]

\* The characters encodeURIComponent leaves alone: letters, digits and
\* - _ . ! ~ * ' ( )
Unreserved(c) ==
  \/ IsLower(c)
  \/ IsUpper(c)
  \/ c \in {"0", "1", "2", "3", "4", "5", "6", "7", "8", "9"}
  \/ c \in {"-", "_", ".", "!", "~", "*", "'", "(", ")"}

\* The percent escape of each reserved character of the modelled alphabet
PercentEscape(c) ==
  CASE c = " " -> <<"%","2","0">>
    [] c = "," -> <<"%","2","C">>
    [] c = "/" -> <<"%","2","F">>
    [] c = ":" -> <<"%","3","A">>
    [] c = "&" -> <<"%","2","6">>
    [] c = "=" -> <<"%","3","D">>
    [] c = "?" -> <<"%","3","F">>
    [] c = "#" -> <<"%","2","3">>
    [] c = "%" -> <<"%","2","5">>
    [] c = ";" -> <<"%","3","B">>

\* encodeURIComponent
RECURSIVE EncodeURIComponent(_)
EncodeURIComponent(s) ==
  IF Len(s) = 0 THEN << >>
  ELSE (IF Unreserved(s[1]) THEN <<s[1]>> ELSE PercentEscape(s[1]))
       \o EncodeURIComponent(Tail(s))

-----------------------------------------------------------------------------
(* JavaScript values the block reads: a tags value is a string or an array *)
(* of strings; undefined and "" are both the empty string here, as every   *)
(* use of them in the block is through || or a truthiness test.            *)

JsString(s) == [isArray |-> FALSE, str |-> s, arr |-> << >>]
JsArray(a) == [isArray |-> TRUE, str |-> << >>, arr |-> a]
Undefined == JsString(<< >>)

\* JavaScript truthiness: a non-empty string, or any array
Truthy(v) == v.isArray \/ Len(v.str) > 0

\* a || b
OrElse(a, b) == IF Truthy(a) THEN a ELSE b

-----------------------------------------------------------------------------
(* Bounds of the model.                                                    *)

\* decorate invocations per block
MaxRuns == 2
\* blocks on the page in the specification of simultaneous instances
NumBlocks == 2
\* records in a response
MaxItems == 2
\* categories of a record after its first
MaxMoreCategories == 1

-----------------------------------------------------------------------------
(* The authored container.  Its children are elements: an anchor           *)
(* [kind |-> "a", href, text], a configuration row [kind |-> "row", key,   *)
(* value], and what decorate renders.                                      *)

IsAnchor(e) == e.kind = "a"
IsRow(e) == e.kind = "row"

\* block.querySelector("a[href]"): the first anchor in document order
HasAnchor(children) == \E i \in 1..Len(children) : IsAnchor(children[i])

FirstAnchor(children) ==
  children[CHOOSE i \in 1..Len(children) :
             IsAnchor(children[i]) /\ \A j \in 1..(i - 1) : ~IsAnchor(children[j])]

\* readBlockConfig(block)[key]: the value of the last two-column row of
\* that key, undefined if there is none
ReadBlockConfig(children, key) ==
  IF \E i \in 1..Len(children) : IsRow(children[i]) /\ children[i].key = key
  THEN children[CHOOSE i \in 1..Len(children) :
                  /\ IsRow(children[i]) /\ children[i].key = key
                  /\ \A j \in (i + 1)..Len(children) :
                       ~(IsRow(children[j]) /\ children[j].key = key)].value
  ELSE Undefined

\* folderHref as extracted from the markup, before normalisation
ExtractFolderHref(children) ==
  LET fromAnchor ==
        IF HasAnchor(children)
        THEN IF Len(FirstAnchor(children).href) > 0
             THEN FirstAnchor(children).href
             ELSE Trim(FirstAnchor(children).text)
        ELSE << >>
      fromCfg ==
        OrElse(ReadBlockConfig(children, "folder"),
               OrElse(ReadBlockConfig(children, "reference"),
                      OrElse(ReadBlockConfig(children, "path"), Undefined))).str
  IN IF Len(fromAnchor) > 0 THEN fromAnchor ELSE fromCfg

\* new URL(s): [ok, pathname].  scheme ":" "//" host path, the path ending
\* at the first "?" or "#"; no scheme, no "//" or an empty host throws.
CutAt(s, c) ==
  IF IndexOfChar(s, c) = 0 THEN s ELSE SubSeq(s, 1, IndexOfChar(s, c) - 1)

ParseURL(s) ==
  LET colon == IndexOfChar(s, ":")
      rest == SubSeq(s, colon + 1, Len(s))
      afterSlashes == SubSeq(rest, 3, Len(rest))
      beforeQuery == CutAt(CutAt(afterSlashes, "?"), "#")
      slash == IndexOfChar(beforeQuery, "/")
      host == IF slash = 0 THEN beforeQuery ELSE SubSeq(beforeQuery, 1, slash - 1)
      path == IF slash = 0 THEN <<"/">> ELSE SubSeq(beforeQuery, slash, Len(beforeQuery))
  IN IF colon > 1 /\ StartsWith(rest, <<"/","/">>) /\ Len(host) > 0
     THEN [ok |-> TRUE, pathname |-> path]
     ELSE [ok |-> FALSE, pathname |-> << >>]

\* folderHref replaced by its pathname if it is an absolute URL; a URL that
\* does not parse is kept
ToPathname(folderHref) ==
  IF Len(folderHref) > 0 /\ StartsWith(folderHref, <<"h","t","t","p">>) /\ ParseURL(folderHref).ok
  THEN ParseURL(folderHref).pathname
  ELSE folderHref

\* variant: the extension left in place
StripHtmlKeep(folderHref) == folderHref

\* the .html extension removed: replace(/\.html$/, "")
StripHtml(folderHref) ==
  IF Len(folderHref) > 0 /\ EndsWith(folderHref, <<".","h","t","m","l">>)
  THEN SubSeq(folderHref, 1, Len(folderHref) - 5)
  ELSE folderHref

ResolveFolderHref(children) == StripHtml(ToPathname(ExtractFolderHref(children)))

\* tags: block.dataset.cqTags || cfg.tags || cfg["cq:tags"] || ""
ExtractTags(children, cqTags) ==
  OrElse(JsString(cqTags),
         OrElse(ReadBlockConfig(children, "tags"),
                OrElse(ReadBlockConfig(children, "cq:tags"), JsString(<< >>))))

\* variant: the marker tested at the start of the path only
IsLegacyLuma3Prefix(folderHref) ==
  Len(folderHref) > 0 /\ StartsWith(folderHref, <<"/","d","a","m","/","l","u","m","a","3","/">>)

\* isLegacyLuma3: the path holds the marker of the legacy content root
IsLegacyLuma3(folderHref) ==
  Len(folderHref) > 0 /\ Includes(folderHref, <<"/","d","a","m","/","l","u","m","a","3","/">>)

-----------------------------------------------------------------------------
(* Product Fetcher: the request of each strategy and what it returns.      *)

LegacyAuthorBaseUrl ==
  <<"h","t","t","p","s",":","/","/","a","u","t","h","o","r","-","p","1","6","5","8","0","2","-","e","1","7","6","5","3","6","7",".","a","d","o","b","e","a","e","m","c","l","o","u","d",".","c","o","m","/","g","r","a","p","h","q","l","/","e","x","e","c","u","t","e",".","j","s","o","n","/","l","u","m","a","3","/","m","e","n","p","r","o","d","u","c","t","s","p","a","g","e","l","i","s","t","e","r",";">>
LegacyPublishBaseUrl ==
  <<"h","t","t","p","s",":","/","/","2","7","5","3","2","3","-","9","1","8","s","a","n","g","r","i","a","t","o","r","t","o","i","s","e",".","a","d","o","b","e","i","o","r","u","n","t","i","m","e",".","n","e","t","/","a","p","i","/","v","1","/","w","e","b","/","d","x","-","e","x","c","s","h","e","l","l","-","1","/","l","u","m","a","P","r","o","d","u","c","t","s","G","r","a","p","h","Q","l","?">>
CategoryAuthorBaseUrl ==
  <<"h","t","t","p","s",":","/","/","a","u","t","h","o","r","-","p","1","6","5","8","0","2","-","e","1","7","6","5","3","6","7",".","a","d","o","b","e","a","e","m","c","l","o","u","d",".","c","o","m","/","g","r","a","p","h","q","l","/","e","x","e","c","u","t","e",".","j","s","o","n","/","l","u","m","a","3","/","c","a","t","e","g","o","r","y","F","i","l","t","e","r","e","d","P","r","o","d","u","c","t","s","L","i","s","t","e","r",";">>
CategoryPublishBaseUrl ==
  <<"h","t","t","p","s",":","/","/","2","7","5","3","2","3","-","9","1","8","s","a","n","g","r","i","a","t","o","r","t","o","i","s","e",".","a","d","o","b","e","i","o","r","u","n","t","i","m","e",".","n","e","t","/","a","p","i","/","v","1","/","w","e","b","/","d","x","-","e","x","c","s","h","e","l","l","-","1","/","c","a","t","e","g","o","r","y","F","i","l","t","e","r","e","d","P","r","o","d","u","c","t","s","L","i","s","t","e","r","?">>

\* the url of fetchLegacyProducts
FetchLegacyProductsUrl(path, author) ==
  (IF author THEN LegacyAuthorBaseUrl ELSE LegacyPublishBaseUrl) \o <<"_","p","a","t","h","=">> \o path

\* categoryParam: an array joined by ",", a string as it is
CategoryParam(categoryFilter) ==
  IF categoryFilter.isArray THEN Join(categoryFilter.arr, <<",">>) ELSE categoryFilter.str

\* the url of fetchCategoryFilteredProducts
FetchCategoryFilteredProductsUrl(path, categoryFilter, author) ==
  (IF author THEN CategoryAuthorBaseUrl ELSE CategoryPublishBaseUrl)
    \o <<"_","p","a","t","h","=">> \o path
    \o (IF Truthy(categoryFilter)
        THEN <<"&","c","a","t","e","g","o","r","y","=">> \o EncodeURIComponent(CategoryParam(categoryFilter))
        ELSE << >>)

\* What a fetcher returns: an array, or whatever else the body holds at
\* data.productsModelList.items
EmptyItems == [isArray |-> TRUE, list |-> << >>]

\* json?.data?.productsModelList?.items || []
ExtractItems(json) ==
  CASE json.shape = "missing" -> EmptyItems
    [] json.shape = "array" -> [isArray |-> TRUE, list |-> json.list]
    [] json.shape = "object" -> [isArray |-> FALSE, list |-> << >>]

\* variant: the error leaves the fetcher
RethrowFetchError == [threw |-> TRUE, items |-> EmptyItems]

\* the catch block of both fetchers: log and return []
CatchFetchError == [threw |-> FALSE, items |-> EmptyItems]

-----------------------------------------------------------------------------
(* renderHeader                                                            *)

RECURSIVE TrimAll(_)
TrimAll(list) ==
  IF Len(list) = 0 THEN << >> ELSE <<Trim(list[1])>> \o TrimAll(Tail(list))

NonEmpty(t) == Len(t) > 0

\* list.map(trim).filter(Boolean)
TagList(selectedTags) ==
  SelectSeq(TrimAll(IF selectedTags.isArray THEN selectedTags.arr
                    ELSE Split(selectedTags.str, ",")),
            NonEmpty)

RenderHeader(children, selectedTags) ==
  IF ~Truthy(selectedTags) \/ (selectedTags.isArray /\ Len(selectedTags.arr) = 0)
  THEN children
  ELSE Append(children, [kind |-> "cpl-tags", chips |-> TagList(selectedTags)])

-----------------------------------------------------------------------------
(* buildCard                                                               *)

\* variant: the sku alone
ProductIdSkuOnly(item) == item.sku

\* productId: sku || id || ""
ProductId(item) == IF Len(item.sku) > 0 THEN item.sku ELSE item.id

\* replace(/^(luma:|lumaproducts:)/gi, "")
StripLumaPrefix(s) ==
  IF StartsWith(ToLowerCase(s), <<"l","u","m","a",":">>) THEN SubSeq(s, 6, Len(s))
  ELSE IF StartsWith(ToLowerCase(s), <<"l","u","m","a","p","r","o","d","u","c","t","s",":">>) THEN SubSeq(s, 14, Len(s))
  ELSE s

\* replace(/\//g, " / ")
RECURSIVE ReplaceSlashes(_)
ReplaceSlashes(s) ==
  IF Len(s) = 0 THEN << >>
  ELSE (IF s[1] = "/" THEN <<" ","/"," ">> ELSE <<s[1]>>) \o ReplaceSlashes(Tail(s))

CategoryText(category) == IF Len(category) > 0 THEN Join(category, <<","," ">>) ELSE << >>

\* variant: the letter case kept
CategoryLabelNoUpper(category) == ReplaceSlashes(StripLumaPrefix(CategoryText(category)))

\* cat.textContent
CategoryLabel(category) ==
  ToUpperCase(ReplaceSlashes(StripLumaPrefix(CategoryText(category))))

\* the picture of the card: none, a plain img, or createOptimizedPicture
Picture(item, author) ==
  LET imgUrl == IF author THEN item.image.authorUrl ELSE item.image.publishUrl
      alt == IF Len(item.name) > 0 THEN item.name ELSE <<"P","r","o","d","u","c","t"," ","i","m","a","g","e">>
  IN IF Len(imgUrl) = 0 THEN [kind |-> "none", src |-> << >>, alt |-> << >>]
     ELSE IF ~author /\ StartsWith(imgUrl, <<"h","t","t","p">>)
          THEN [kind |-> "img", src |-> imgUrl, alt |-> alt]
          ELSE [kind |-> "optimized", src |-> imgUrl, alt |-> alt]

BuildCard(item, author) ==
  [kind |-> "cpl-card",
   handler |-> [attached |-> Len(ProductId(item)) > 0,
                productId |-> ProductId(item),
                isAuthor |-> author],
   picture |-> Picture(item, author),
   category |-> CategoryLabel(item.category),
   title |-> item.name]

\* the location the click handler of a card assigns
ClickHref(currentPath, handler) ==
  LET basePath == Substring0(currentPath, LastIndexOf(currentPath, "/"))
      productPath == basePath \o (IF handler.isAuthor THEN <<"/","p","r","o","d","u","c","t",".","h","t","m","l">> ELSE <<"/","p","r","o","d","u","c","t">>)
  IN productPath \o <<"?","p","r","o","d","u","c","t","I","d","=">> \o EncodeURIComponent(handler.productId)

-----------------------------------------------------------------------------
(* Renderer                                                                *)

\* variant: the children kept
ClearBlockKeep(children) == children

\* block.innerHTML = ""
ClearBlock(children) == << >>

EmptyMessage == [kind |-> "cpl-empty", text |-> "No products found."]

RECURSIVE BuildCards(_, _)
BuildCards(list, author) ==
  IF Len(list) = 0 THEN << >>
  ELSE <<BuildCard(list[1], author)>> \o BuildCards(Tail(list), author)

\* variant: no message for an empty array
RenderItemsNoMessage(items, author) ==
  IF items.isArray THEN [threw |-> FALSE, children |-> BuildCards(items.list, author)]
  ELSE [threw |-> TRUE, children |-> << >>]

\* what decorate does with the fetched items: the empty message, the cards,
\* or a TypeError when items is no array (it has no length and no map)
RenderItems(items, author) ==
  IF items.isArray /\ Len(items.list) = 0
  THEN [threw |-> FALSE, children |-> <<EmptyMessage>>]
  ELSE IF items.isArray
       THEN [threw |-> FALSE, children |-> BuildCards(items.list, author)]
       ELSE [threw |-> TRUE, children |-> << >>]

IsGrid(e) == e.kind = "cpl-grid"
IsHeader(e) == e.kind = "cpl-tags"
IsCard(e) == e.kind = "cpl-card"
IsEmptyMessage(e) == e.kind = "cpl-empty"

\* grid.append(...): the grid of this invocation is the last grid of the block
AppendToGrid(children, new) ==
  LET g == CHOOSE i \in 1..Len(children) :
             IsGrid(children[i]) /\ \A j \in (i + 1)..Len(children) : ~IsGrid(children[j])
  IN [children EXCEPT ![g].children = children[g].children \o new]

-----------------------------------------------------------------------------
(* The state: the blocks of one page, the endpoint, and each decorate      *)
(* invocation's position and locals.                                       *)

VARIABLES
  blockChildren,  \* block -> the children of the block element, in order
  dataset,        \* block -> block.dataset.cqTags ("" when absent)
  authored,       \* block -> the markup the author gave the block
  endpoint,       \* block -> how the request of that block is answered
  isAuthor,       \* isAuthorEnvironment(), process-wide
  pc,             \* block -> where its decorate invocation is
  local,          \* block -> the locals of its decorate invocation
  requests,       \* block -> the requests its current invocation issued
  budget,         \* block -> decorate invocations the block may still start
  history,        \* block -> per finished invocation, its input and result
  location,       \* window.location: pathname, and href once assigned
  lastClick       \* the card clicked last

vars ==
  <<blockChildren, dataset, authored, endpoint, isAuthor, pc, local, requests,
    budget, history, location, lastClick>>

Blocks == DOMAIN pc

NoLocal ==
  [input |-> << >>, folderHref |-> << >>, tags |-> Undefined, strategy |-> "none",
   items |-> EmptyItems]

NoClick == [block |-> 0, index |-> 0, handler |-> [attached |-> FALSE, productId |-> << >>, isAuthor |-> FALSE]]

\* another block's invocation is suspended (kept with the history)
Overlapped(b) == \E c \in Blocks \ {b} : pc[c] \in {"fetching", "parsing", "resume"}

\* window.location.href was assigned: the page is being left
Navigated == Len(location.href) > 0

\* variant: the first grid of the document, as a query for ".cpl-grid"
\* instead of the local grid would find
GridRefFirstInDocument(b) ==
  CHOOSE c \in Blocks :
    /\ \E i \in 1..Len(blockChildren[c]) : IsGrid(blockChildren[c][i])
    /\ \A d \in Blocks :
         (\E i \in 1..Len(blockChildren[d]) : IsGrid(blockChildren[d][i])) => c <= d

\* the grid an invocation appends to is the one it created in its own block
GridRef(b) == b

-----------------------------------------------------------------------------
(* decorate, from its call to its first suspension: resolve the folder and *)
(* the tags, clear the block, render the header and the grid, and call the *)
(* fetcher, which returns at once for an empty path and otherwise issues   *)
(* its request.                                                            *)
Decorate(b) ==
  /\ ~Navigated
  /\ pc[b] \in {"idle", "done", "threw"}
  /\ budget[b] > 0
  /\ LET input == blockChildren[b]
         folderHref == ResolveFolderHref(input)
         tags == ExtractTags(input, dataset[b])
         withHeader == RenderHeader(ClearBlock(input), tags)
         withGrid == Append(withHeader, [kind |-> "cpl-grid", children |-> << >>])
         legacy == IsLegacyLuma3(folderHref)
         url == IF legacy THEN FetchLegacyProductsUrl(folderHref, isAuthor)
                ELSE FetchCategoryFilteredProductsUrl(folderHref, tags, isAuthor)
     IN /\ blockChildren' = [blockChildren EXCEPT ![b] = withGrid]
        /\ local' = [local EXCEPT ![b] =
                       [input |-> input, folderHref |-> folderHref, tags |-> tags,
                        strategy |-> IF legacy THEN "legacy" ELSE "modern",
                        items |-> EmptyItems]]
        /\ IF Len(folderHref) = 0
           THEN /\ requests' = [requests EXCEPT ![b] = << >>]
                /\ pc' = [pc EXCEPT ![b] = "resume"]
           ELSE /\ requests' = [requests EXCEPT ![b] =
                                  <<[strategy |-> IF legacy THEN "legacy" ELSE "modern",
                                     url |-> url]>>]
                /\ pc' = [pc EXCEPT ![b] = "fetching"]
  /\ budget' = [budget EXCEPT ![b] = budget[b] - 1]
  /\ UNCHANGED <<dataset, authored, endpoint, isAuthor, history, location, lastClick>>

\* An invocation that ends here: its await rejects
Throw(b) ==
  /\ pc' = [pc EXCEPT ![b] = "threw"]
  /\ history' = [history EXCEPT ![b] =
                   Append(history[b], [input |-> local[b].input,
                                       output |-> blockChildren[b],
                                       threw |-> TRUE,
                                       overlapped |-> Overlapped(b)])]
  /\ UNCHANGED <<blockChildren, local>>

\* await fetch(url, ...) settles: a network error is caught by the fetcher,
\* a response goes on to resp.json()
FetchSettles(b) ==
  /\ ~Navigated
  /\ pc[b] = "fetching"
  /\ IF endpoint[b].kind = "neterr"
     THEN IF CatchFetchError.threw
          THEN Throw(b)
          ELSE /\ local' = [local EXCEPT ![b].items = CatchFetchError.items]
               /\ pc' = [pc EXCEPT ![b] = "resume"]
               /\ UNCHANGED <<blockChildren, history>>
     ELSE /\ pc' = [pc EXCEPT ![b] = "parsing"]
          /\ UNCHANGED <<blockChildren, local, history>>
  /\ UNCHANGED <<dataset, authored, endpoint, isAuthor, requests, budget, location, lastClick>>

\* await resp.json() settles: a body that is not JSON is caught by the
\* fetcher, a JSON body gives the items
JsonSettles(b) ==
  /\ ~Navigated
  /\ pc[b] = "parsing"
  /\ IF endpoint[b].kind = "nonjson"
     THEN IF CatchFetchError.threw
          THEN Throw(b)
          ELSE /\ local' = [local EXCEPT ![b].items = CatchFetchError.items]
               /\ pc' = [pc EXCEPT ![b] = "resume"]
               /\ UNCHANGED <<blockChildren, history>>
     ELSE /\ local' = [local EXCEPT ![b].items = ExtractItems(endpoint[b].json)]
          /\ pc' = [pc EXCEPT ![b] = "resume"]
          /\ UNCHANGED <<blockChildren, history>>
  /\ UNCHANGED <<dataset, authored, endpoint, isAuthor, requests, budget, location, lastClick>>

\* decorate resumes with the items: the empty message or the cards
Resume(b) ==
  /\ ~Navigated
  /\ pc[b] = "resume"
  /\ LET r == RenderItems(local[b].items, isAuthor)
         g == GridRef(b)
     IN IF r.threw
        THEN Throw(b)
        ELSE /\ blockChildren' =
                  [blockChildren EXCEPT ![g] = AppendToGrid(blockChildren[g], r.children)]
             /\ pc' = [pc EXCEPT ![b] = "done"]
             /\ history' = [history EXCEPT ![b] =
                              Append(history[b], [input |-> local[b].input,
                                                  output |-> blockChildren'[b],
                                                  threw |-> FALSE,
                                                  overlapped |-> Overlapped(b)])]
             /\ UNCHANGED local
  /\ UNCHANGED <<dataset, authored, endpoint, isAuthor, requests, budget, location, lastClick>>

\* The authoring framework puts the authored markup back into a block that
\* was decorated, in front of what the block holds
IsAuthoredElement(e) == IsAnchor(e) \/ IsRow(e)

Reauthor(b) ==
  /\ ~Navigated
  /\ pc[b] \in {"done", "threw"}
  /\ budget[b] > 0
  /\ Len(authored[b]) > 0
  /\ Len(SelectSeq(blockChildren[b], IsAuthoredElement)) = 0
  /\ blockChildren' = [blockChildren EXCEPT ![b] = authored[b] \o blockChildren[b]]
  /\ pc' = [pc EXCEPT ![b] = "idle"]
  /\ UNCHANGED <<dataset, authored, endpoint, isAuthor, local, requests, budget,
                 history, location, lastClick>>

\* the cards of a block, in document order
GridChildren(children) ==
  IF \E i \in 1..Len(children) : IsGrid(children[i])
  THEN children[CHOOSE i \in 1..Len(children) :
                  IsGrid(children[i]) /\ \A j \in (i + 1)..Len(children) : ~IsGrid(children[j])].children
  ELSE << >>

\* A click on card i of block b: the handler, if the card has one, assigns
\* window.location.href
Click(b, i) ==
  /\ ~Navigated
  /\ pc[b] = "done"
  /\ i \in 1..Len(GridChildren(blockChildren[b]))
  /\ IsCard(GridChildren(blockChildren[b])[i])
  /\ LET card == GridChildren(blockChildren[b])[i]
     IN /\ lastClick' = [block |-> b, index |-> i, handler |-> card.handler]
        /\ location' = IF card.handler.attached
                       THEN [location EXCEPT !.href = ClickHref(location.pathname, card.handler)]
                       ELSE location
  /\ UNCHANGED <<blockChildren, dataset, authored, endpoint, isAuthor, pc, local,
                 requests, budget, history>>

Next ==
  \/ \E b \in Blocks : Decorate(b)
  \/ \E b \in Blocks : FetchSettles(b)
  \/ \E b \in Blocks : JsonSettles(b)
  \/ \E b \in Blocks : Resume(b)
  \/ \E b \in Blocks : Reauthor(b)
  \/ \E b \in Blocks : \E i \in 1..Len(GridChildren(blockChildren[b])) : Click(b, i)

-----------------------------------------------------------------------------
(* The inputs: authored markup, dataset tags, responses, records.          *)

Anchor(href, text) == [kind |-> "a", href |-> href, text |-> text]
Row(key, value) == [kind |-> "row", key |-> key, value |-> JsString(value)]
RowArray(key, value) == [kind |-> "row", key |-> key, value |-> JsArray(value)]

\* Folder references as authored.  An anchor's href is what the browser
\* resolves it to: an absolute URL, or the attribute itself when it does
\* not parse.
LegacyAnchors ==
  { <<Anchor(<<"h","t","t","p","s",":","/","/","h",".","i","o","/","c","o","n","t","e","n","t","/","d","a","m","/","l","u","m","a","3","/","m","e","n",".","h","t","m","l">>, <<"m","e","n">>)>>,
    <<Anchor(<<"h","t","t","p",":","/","/","h",".","i","o","/","d","a","m","/","l","u","m","a","3","/","m","e","n">>, <<"m","e","n">>)>>,
    <<Anchor(<< >>, <<" ","/","c","o","n","t","e","n","t","/","d","a","m","/","l","u","m","a","3","/","m","e","n"," ">>)>> }

LegacyRows ==
  { <<Row("folder", <<"/","c","o","n","t","e","n","t","/","d","a","m","/","l","u","m","a","3","/","m","e","n">>)>>,
    <<Row("reference", <<"/","d","a","m","/","l","u","m","a","3","/","m","e","n",".","h","t","m","l">>)>>,
    <<Row("path", <<"/","c","o","n","t","e","n","t","/","d","a","m","/","l","u","m","a","3","/","m","e","n",".","h","t","m","l",".","h","t","m","l">>)>> }

ModernAnchors ==
  { <<Anchor(<<"h","t","t","p",":","/","/","h",".","i","o","/","c","o","n","t","e","n","t","/","c","a","t","/","s","h","i","r","t","s",".","h","t","m","l">>, <<"s","h","i","r","t","s">>)>>,
    <<Anchor(<<"h","t","t","p","s",":","/","/","h",".","i","o","/","c","o","n","t","e","n","t","/","c","a","t","/","s","h","i","r","t","s",".","h","t","m","l","?","a","=","b","#","c">>, <<"s","h","i","r","t","s">>)>>,
    <<Anchor(<<"h","t","t","p","s",":","/","/","h",".","i","o">>, <<"h","o","m","e">>)>>,
    <<Anchor(<<"f","t","p",":","/","/","h",".","i","o","/","c","o","n","t","e","n","t","/","c","a","t","/","s","h","i","r","t","s">>, <<"s","h","i","r","t","s">>)>>,
    <<Anchor(<<"h","t","t","p",":","/","/">>, <<"b","r","o","k","e","n">>)>>,
    <<Anchor(<< >>, <<"/","c","o","n","t","e","n","t","/","c","a","t","/","s","h","i","r","t","s">>)>> }

ModernRows ==
  { <<Row("folder", <<"/","c","o","n","t","e","n","t","/","c","a","t","/","s","h","i","r","t","s">>)>>,
    <<Row("reference", <<"/","c","o","n","t","e","n","t","/","c","a","t","/","s","h","i","r","t","s",".","h","t","m","l">>)>>,
    <<Row("path", <<"/","c","o","n","t","e","n","t","/","c","a","t","/","s","h","i","r","t","s",".","h","t","m","l",".","h","t","m","l">>)>>,
    <<Row("folder", <<"/","/","h",".","i","o","/","c","o","n","t","e","n","t","/","c","a","t","/","s","h","i","r","t","s">>)>>,
    <<Row("folder", <<"h","t","t","p","d","o","c","s","/","c","a","t">>)>>,
    <<Row("folder", << >>), Row("path", <<"/","c","o","n","t","e","n","t","/","c","a","t","/","h","a","t","s">>)>>,
    <<Row("folder", <<"/","c","o","n","t","e","n","t","/","c","a","t","/","h","a","t","s">>), Row("folder", <<"/","c","o","n","t","e","n","t","/","c","a","t","/","s","h","i","r","t","s">>)>> }

\* the order of precedence: the anchor before the configuration
MixedFolders ==
  { <<Anchor(<<"h","t","t","p",":","/","/","h",".","i","o","/","c","o","n","t","e","n","t","/","c","a","t","/","s","h","i","r","t","s",".","h","t","m","l">>, <<"s","h","i","r","t","s">>),
      Row("folder", <<"/","c","o","n","t","e","n","t","/","d","a","m","/","l","u","m","a","3","/","m","e","n">>)>>,
    <<Row("reference", <<"/","c","o","n","t","e","n","t","/","d","a","m","/","l","u","m","a","3","/","m","e","n">>), Row("path", <<"/","c","o","n","t","e","n","t","/","c","a","t","/","s","h","i","r","t","s">>)>> }

FolderMarkups ==
  {<< >>} \cup LegacyAnchors \cup LegacyRows \cup ModernAnchors \cup ModernRows
    \cup MixedFolders

CoreFolderMarkups ==
  { << >>,
    <<Anchor(<<"h","t","t","p","s",":","/","/","h",".","i","o","/","c","o","n","t","e","n","t","/","d","a","m","/","l","u","m","a","3","/","m","e","n",".","h","t","m","l">>, <<"m","e","n">>)>>,
    <<Row("folder", <<"/","c","o","n","t","e","n","t","/","d","a","m","/","l","u","m","a","3","/","m","e","n">>)>>,
    <<Anchor(<<"h","t","t","p",":","/","/","h",".","i","o","/","c","o","n","t","e","n","t","/","c","a","t","/","s","h","i","r","t","s",".","h","t","m","l">>, <<"s","h","i","r","t","s">>)>>,
    <<Row("folder", <<"/","c","o","n","t","e","n","t","/","c","a","t","/","s","h","i","r","t","s">>)>> }

\* Tags as authored: the dataset attribute and the configuration rows
TagStrings ==
  { <<"r","e","d">>, <<"r","e","d",","," ","b","l","u","e">>, <<" ","r","e","d"," ",",","b","l","u","e">>, <<"r","e","d",",",",","b","l","u","e"," ">>, <<",">>, <<" ">>, <<"a","&","b","/","c",",","d","=","e">> }

Tagging(cqTags, rows) == [cqTags |-> cqTags, rows |-> rows]

TagMarkups ==
  {Tagging(<< >>, << >>)}
    \cup {Tagging(t, << >>) : t \in TagStrings}
    \cup {Tagging(<< >>, <<Row("tags", t)>>) : t \in TagStrings}
    \cup { Tagging(<< >>, <<Row("cq:tags", <<"r","e","d",","," ","b","l","u","e">>)>>),
           Tagging(<< >>, <<RowArray("tags", <<<<"r","e","d">>, <<" ","b","l","u","e">>>>)>>),
           Tagging(<< >>, <<RowArray("tags", <<<<" ">>, << >>>>)>>),
           Tagging(<< >>, <<RowArray("tags", <<<<"b","l","u","e"," ">>, << >>, <<"r","e","d">>>>)>>),
           Tagging(<<"b","l","u","e">>, <<Row("tags", <<"r","e","d">>)>>),
           Tagging(<< >>, <<Row("tags", << >>), Row("cq:tags", <<"r","e","d">>)>>) }

CoreTagMarkups ==
  { Tagging(<< >>, << >>),
    Tagging(<<"r","e","d",","," ","b","l","u","e">>, << >>),
    Tagging(<< >>, <<Row("tags", <<"r","e","d">>)>>) }

\* the authored blocks of the main specification
Markups ==
  {[children |-> f \o t.rows, cqTags |-> t.cqTags] : f \in FolderMarkups, t \in CoreTagMarkups}
    \cup
  {[children |-> f \o t.rows, cqTags |-> t.cqTags] : f \in CoreFolderMarkups, t \in TagMarkups}

\* Records of a response
Image(authorUrl, publishUrl) == [authorUrl |-> authorUrl, publishUrl |-> publishUrl]
NoImage == Image(<< >>, << >>)

Record(sku, id, name, image, category) ==
  [sku |-> sku, id |-> id, name |-> name, image |-> image, category |-> category]

Shoe == Record(<<"M","1">>, <<"7">>, <<"S","h","o","e">>, Image(<<"/","a","/","i","m","g",".","p","n","g">>, <<"h","t","t","p",":","/","/","x","/","i","m","g",".","p","n","g">>), <<<<"l","u","m","a",":","m","e","n">>>>)
Bag == Record(<< >>, << >>, <<"B","a","g">>, Image(<< >>, <<"/","b","/","i","m","g",".","p","n","g">>), <<<<"L","u","m","a",":","w","o","m","e","n","/","b","a","g","s">>, <<"l","u","m","a",":","s","a","l","e">>>>)

CoreRecords == {Shoe, Bag}

\* every sequence of at most n records
RECURSIVE Lists(_, _)
Lists(records, n) ==
  IF n = 0 THEN {<< >>}
  ELSE Lists(records, n - 1)
         \cup {<<r>> \o l : r \in records, l \in {m \in Lists(records, n - 1) : Len(m) = n - 1}}

JsonItems(list) == [kind |-> "json", json |-> [shape |-> "array", list |-> list]]

\* how the endpoint answers: a network error, a body that is not JSON, a
\* JSON body without data.productsModelList.items, one whose items is no
\* array, and one whose items is a list of records
Failures ==
  { [kind |-> "neterr", json |-> [shape |-> "missing", list |-> << >>]],
    [kind |-> "nonjson", json |-> [shape |-> "missing", list |-> << >>]],
    [kind |-> "json", json |-> [shape |-> "missing", list |-> << >>]],
    [kind |-> "json", json |-> [shape |-> "object", list |-> << >>]] }

Responses(records) == Failures \cup {JsonItems(l) : l \in Lists(records, MaxItems)}

TypeOK ==
  /\ pc \in [Blocks -> {"idle", "fetching", "parsing", "resume", "done", "threw"}]
  /\ budget \in [Blocks -> 0..MaxRuns]
  /\ isAuthor \in BOOLEAN

InitBlocks(blocks, markup, response, invocations) ==
  /\ blockChildren = [b \in blocks |-> markup[b].children]
  /\ authored = [b \in blocks |-> markup[b].children]
  /\ dataset = [b \in blocks |-> markup[b].cqTags]
  /\ endpoint = response
  /\ pc = [b \in blocks |-> "idle"]
  /\ local = [b \in blocks |-> NoLocal]
  /\ requests = [b \in blocks |-> << >>]
  /\ budget = invocations
  /\ history = [b \in blocks |-> << >>]
  /\ lastClick = NoClick

\* one block, every authored markup, every kind of response
Init ==
  /\ isAuthor \in BOOLEAN
  /\ location = [pathname |-> <<"/","u","s","/","e","n","/","m","e","n","-","p","r","o","d","u","c","t","s">>, href |-> << >>]
  /\ \E markup \in [{1} -> Markups], response \in [{1} -> Responses(CoreRecords)] :
       InitBlocks({1}, markup, response, [b \in {1} |-> MaxRuns])

Spec == Init /\ [][Next]_vars

\* The records of the card specification: every kind of identifier, of
\* name and image, and of category sequence
Prefixes ==
  { << >>, <<"l","u","m","a",":">>, <<"L","U","M","A",":">>, <<"L","u","m","a","p","r","o","d","u","c","t","s",":">>, <<"l","u","m","a",":","l","u","m","a",":">>, <<"l","u","m","a","p","r","o","d","u","c","t","s",":","L","U","M","A",":">>,
    <<"x","l","u","m","a",":">>, <<" ","l","u","m","a",":">> }

Bodies == { <<"m","e","n">>, <<"m","e","n","/","t","o","p","s">>, <<"/">>, << >> }

RECURSIVE More(_)
More(n) == IF n = 0 THEN << >> ELSE <<<<"l","u","m","a",":","s","a","l","e","/","n","e","w">>>> \o More(n - 1)

Categories ==
  {<< >>} \cup {<<p \o body>> \o More(n) : p \in Prefixes, body \in Bodies,
                                        n \in 0..MaxMoreCategories}

CardRecords ==
  {Record(sku, id, <<"S","h","o","e">>, NoImage, <<<<"l","u","m","a",":","m","e","n">>>>) :
     sku \in {<< >>, <<"M","1">>, <<"a","&","b"," ","c">>}, id \in {<< >>, <<"7">>}}
    \cup
  {Record(<<"M","1">>, << >>, name, image, << >>) :
     name \in {<< >>, <<"S","h","o","e">>},
     image \in {NoImage, Image(<<"/","a","/","i","m","g",".","p","n","g">>, <<"h","t","t","p",":","/","/","x","/","i","m","g",".","p","n","g">>),
                Image(<<"h","t","t","p",":","/","/","a","/","i","m","g",".","p","n","g">>, <<"/","b","/","i","m","g",".","p","n","g">>)}}
    \cup
  {Record(<<"M","1">>, << >>, <<"S","h","o","e">>, NoImage, category) : category \in Categories}

\* one block, one authored markup, every record
InitCards ==
  /\ isAuthor \in BOOLEAN
  /\ \E pathname \in {<<"/","u","s","/","e","n","/","m","e","n","-","p","r","o","d","u","c","t","s">>, <<"/","m","e","n","-","p","r","o","d","u","c","t","s">>, <<"/","u","s","/","e","n","/">>} :
       location = [pathname |-> pathname, href |-> << >>]
  /\ \E r \in CardRecords, l \in {<< >>, <<Bag>>} :
       InitBlocks({1},
                  [b \in {1} |-> [children |-> <<Row("folder", <<"/","c","o","n","t","e","n","t","/","c","a","t","/","s","h","i","r","t","s">>)>>,
                                  cqTags |-> << >>]],
                  [b \in {1} |-> JsonItems(<<r>> \o l)],
                  [b \in {1} |-> MaxRuns])

SpecCards == InitCards /\ [][Next]_vars

\* several blocks on one page, each with its own markup and response; the
\* first block may be decorated again, the others are decorated once
PageInputs ==
  { [markup |-> [children |-> <<Anchor(<<"h","t","t","p","s",":","/","/","h",".","i","o","/","c","o","n","t","e","n","t","/","d","a","m","/","l","u","m","a","3","/","m","e","n",".","h","t","m","l">>, <<"m","e","n">>)>>,
                 cqTags |-> <<"r","e","d">>],
     response |-> JsonItems(<<Shoe>>)],
    [markup |-> [children |-> <<Row("folder", <<"/","c","o","n","t","e","n","t","/","c","a","t","/","s","h","i","r","t","s">>)>>,
                 cqTags |-> <<"r","e","d",","," ","b","l","u","e">>],
     response |-> JsonItems(<<Bag, Shoe>>)],
    [markup |-> [children |-> <<Row("folder", <<"/","c","o","n","t","e","n","t","/","c","a","t","/","s","h","i","r","t","s">>)>>,
                 cqTags |-> <<"r","e","d",","," ","b","l","u","e">>],
     response |-> [kind |-> "neterr", json |-> [shape |-> "missing", list |-> << >>]]] }

InitPage ==
  /\ isAuthor = FALSE
  /\ location = [pathname |-> <<"/","u","s","/","e","n","/","m","e","n","-","p","r","o","d","u","c","t","s">>, href |-> << >>]
  /\ \E input \in [1..NumBlocks -> PageInputs] :
       InitBlocks(1..NumBlocks,
                  [b \in 1..NumBlocks |-> input[b].markup],
                  [b \in 1..NumBlocks |-> input[b].response],
                  [b \in 1..NumBlocks |-> IF b = 1 THEN MaxRuns ELSE 1])

SpecPage == InitPage /\ [][Next]_vars

-----------------------------------------------------------------------------
(* What the claims speak of.                                               *)

\* decodeURIComponent, the inverse of the escapes of encodeURIComponent
EscapedChars == {" ", ",", "/", ":", "&", "=", "?", "#", "%", ";"}

RECURSIVE DecodeURIComponent(_)
DecodeURIComponent(s) ==
  IF Len(s) = 0 THEN << >>
  ELSE IF s[1] = "%" /\ Len(s) >= 3
            /\ \E c \in EscapedChars : PercentEscape(c) = SubSeq(s, 1, 3)
       THEN <<CHOOSE c \in EscapedChars : PercentEscape(c) = SubSeq(s, 1, 3)>>
            \o DecodeURIComponent(SubSeq(s, 4, Len(s)))
       ELSE <<s[1]>> \o DecodeURIComponent(Tail(s))

\* the url carries a parameter of that name
HasParam(url, name) ==
  \E d \in {"?", "&", ";"} : Includes(url, <<d>> \o name \o <<"=">>)

\* the value of the parameter: from after "name=" to the next "&" or the end
ParamValue(url, name) ==
  LET at == CHOOSE i \in 1..Len(url) :
              /\ i + Len(name) + 1 <= Len(url)
              /\ url[i] \in {"?", "&", ";"}
              /\ SubSeq(url, i + 1, i + Len(name) + 1) = name \o <<"=">>
  IN CutAt(SubSeq(url, at + Len(name) + 2, Len(url)), "&")

Started(b) == pc[b] # "idle"
Requested(b) == Started(b) /\ Len(requests[b]) = 1

IsLegacyBase(url) ==
  StartsWith(url, LegacyAuthorBaseUrl) \/ StartsWith(url, LegacyPublishBaseUrl)
IsCategoryBase(url) ==
  StartsWith(url, CategoryAuthorBaseUrl) \/ StartsWith(url, CategoryPublishBaseUrl)

Headers(children) == SelectSeq(children, IsHeader)
Grids(children) == SelectSeq(children, IsGrid)

C2_CategoryIffTags ==
  \A b \in Blocks :
    (Requested(b) /\ ~Includes(local[b].folderHref, <<"/","d","a","m","/","l","u","m","a","3","/">>)) =>
      LET url == requests[b][1].url
          trimmed == TagList(local[b].tags)
      IN /\ requests[b][1].strategy = "modern"
         /\ IsCategoryBase(url)
         /\ HasParam(url, <<"c","a","t","e","g","o","r","y">>) <=> Len(trimmed) > 0
         /\ HasParam(url, <<"c","a","t","e","g","o","r","y">>) =>
              /\ ParamValue(url, <<"c","a","t","e","g","o","r","y">>) = EncodeURIComponent(Join(trimmed, <<",">>))
              /\ Split(DecodeURIComponent(ParamValue(url, <<"c","a","t","e","g","o","r","y">>)), ",") = trimmed

\* C3: when the request fails with a network error, a body that is not
\* JSON, or a JSON body without data.productsModelList.items, the fetcher
\* returns an empty array, decorate does not throw, and the grid ends with
\* exactly the "No products found." message.
FailedResponse(b) ==
  \/ endpoint[b].kind \in {"neterr", "nonjson"}
  \/ endpoint[b].kind = "json" /\ endpoint[b].json.shape = "missing"

C3_FailureGivesEmptyState ==
  \A b \in Blocks :
    (Requested(b) /\ FailedResponse(b)) =>
      /\ pc[b] # "threw"
      /\ pc[b] \in {"resume", "done"} => local[b].items = EmptyItems
      /\ pc[b] = "done" => GridChildren(blockChildren[b]) = <<EmptyMessage>>

\* C3 witness: a network error ended in the empty message
C3_Witness ==
  \E b \in Blocks :
    /\ pc[b] = "done"
    /\ Len(requests[b]) = 1
    /\ endpoint[b].kind = "neterr"
    /\ GridChildren(blockChildren[b]) = <<EmptyMessage>>

\* the records the fetcher of this invocation got
Fetched(b) ==
  IF Len(requests[b]) = 1 /\ endpoint[b].kind = "json" /\ endpoint[b].json.shape = "array"
  THEN endpoint[b].json.list
  ELSE << >>

\* C4: when decorate completes the block holds exactly one grid, and the
\* grid holds either the one message (exactly when nothing was fetched) or
\* one card per fetched record, in order, duplicates kept; never both.
C4_GridContent ==
  \A b \in Blocks :
    pc[b] = "done" =>
      LET g == GridChildren(blockChildren[b])
      IN /\ Len(Grids(blockChildren[b])) = 1
         /\ Len(blockChildren[b]) = Len(Headers(blockChildren[b])) + 1
         /\ (Len(Fetched(b)) = 0) <=> (g = <<EmptyMessage>>)
         /\ Len(Fetched(b)) > 0 =>
              /\ Len(g) = Len(Fetched(b))
              /\ \A i \in 1..Len(g) :
                   /\ IsCard(g[i])
                   /\ g[i].title = Fetched(b)[i].name
         /\ ~(\E i, j \in 1..Len(g) : IsCard(g[i]) /\ IsEmptyMessage(g[j]))

\* C4 witness: a response of twice the same record gave two cards
C4_Witness ==
  \E b \in Blocks :
    /\ pc[b] = "done"
    /\ Len(Fetched(b)) = 2
    /\ Fetched(b)[1] = Fetched(b)[2]
    /\ Len(GridChildren(blockChildren[b])) = 2

\* C5: the tag header is emitted only when a tag is left after the empty
\* and blank ones are dropped, and it then holds one chip per trimmed tag
\* in input order.
C5_HeaderOnlyWithTags ==
  \A b \in Blocks :
    Started(b) =>
      LET h == Headers(blockChildren[b])
          trimmed == TagList(local[b].tags)
      IN /\ Len(h) <= 1
         /\ Len(h) = 1 => Len(trimmed) > 0
         /\ \A i \in 1..Len(h) : h[i].chips = trimmed

\* the folder reference as authored
RawFolder(b) == ExtractFolderHref(local[b].input)

HasSchemeOrHost(p) == Includes(p, <<":","/","/">>) \/ StartsWith(p, <<"/","/">>)

\* an absolute http or https URL with a host
WellFormedHttpUrl(s) ==
  \E p \in {<<"h","t","t","p",":","/","/">>, <<"h","t","t","p","s",":","/","/">>} :
    StartsWith(s, p) /\ Len(s) > Len(p) /\ s[Len(p) + 1] \notin {"/", "?", "#"}

AuthoredPart(children) == SelectSeq(children, IsAuthoredElement)

\* C8 as claimed: a second invocation on the same container leaves it as
\* the first did.
C8_TwiceIsOnce ==
  \A b \in Blocks :
    Len(history[b]) >= 2 => history[b][2].output = history[b][1].output

\* C8 as amended: an invocation that finds the same authored markup in the
\* container, whatever else the container holds, leaves it as the earlier
\* one did: a header at most, one grid, the same cards or message.
C8_SameMarkupSameResult ==
  \A b \in Blocks :
    \A i, j \in 1..Len(history[b]) :
      (i < j /\ AuthoredPart(history[b][j].input) = AuthoredPart(history[b][i].input)) =>
        /\ history[b][j].output = history[b][i].output
        /\ history[b][j].threw = history[b][i].threw
        /\ Len(Grids(history[b][j].output)) = 1
        /\ Len(Headers(history[b][j].output)) <= 1
        /\ Len(AuthoredPart(history[b][j].output)) = 0

\* C8 witness: the second invocation found the markup again, together
\* with the first one's grid, and rendered cards
C8_Witness ==
  \E b \in Blocks :
    /\ Len(history[b]) = 2
    /\ Len(AuthoredPart(history[b][2].input)) > 0
    /\ AuthoredPart(history[b][2].input) = AuthoredPart(history[b][1].input)
    /\ Len(Grids(history[b][2].input)) = 1
    /\ Len(GridChildren(history[b][2].output)) = 2
    /\ IsCard(GridChildren(history[b][2].output)[1])

Count(s, c) == Cardinality({i \in 1..Len(s) : s[i] = c})

HasLumaPrefix(s) ==
  StartsWith(ToLowerCase(s), <<"l","u","m","a",":">>) \/ StartsWith(ToLowerCase(s), <<"l","u","m","a","p","r","o","d","u","c","t","s",":">>)

HasTwoLumaPrefixes(s) ==
  \E p, q \in {<<"l","u","m","a",":">>, <<"l","u","m","a","p","r","o","d","u","c","t","s",":">>} : StartsWith(ToLowerCase(s), p \o q)

SlashesPadded(label) ==
  \A k \in 1..Len(label) :
    label[k] = "/" => k > 1 /\ k < Len(label) /\ label[k - 1] = " " /\ label[k + 1] = " "

\* the cards of a decorated block paired with the records they were built from
CardsOf(b) ==
  IF pc[b] = "done" /\ Len(Fetched(b)) > 0
  THEN {[card |-> GridChildren(blockChildren[b])[i], record |-> Fetched(b)[i]] :
          i \in 1..Len(Fetched(b))}
  ELSE {}

\* C6 as claimed: the category label of a card has no lowercase letter,
\* does not begin with "luma:" or "lumaproducts:" in any letter case, has
\* every "/" replaced by " / ", and is empty for an empty category sequence.
C6_LabelNeverPrefixed ==
  \A b \in Blocks : \A c \in CardsOf(b) :
    /\ \A k \in 1..Len(c.card.category) : ~IsLower(c.card.category[k])
    /\ ~HasLumaPrefix(c.card.category)
    /\ SlashesPadded(c.card.category)
    /\ Count(c.card.category, "/") = Count(Join(c.record.category, <<","," ">>), "/")
    /\ Len(c.record.category) = 0 => c.card.category = << >>

\* C6 as amended: one leading prefix is removed, so the label begins with
\* a prefix only when the joined categories begin with two of them; the
\* rest as claimed.
C6_LabelOnePrefixRemoved ==
  \A b \in Blocks : \A c \in CardsOf(b) :
    LET text == Join(c.record.category, <<","," ">>)
    IN /\ \A k \in 1..Len(c.card.category) : ~IsLower(c.card.category[k])
       /\ HasLumaPrefix(c.card.category) <=> HasTwoLumaPrefixes(text)
       /\ HasLumaPrefix(text) => Len(c.card.category) < Len(text) + 2 * Count(text, "/")
       /\ SlashesPadded(c.card.category)
       /\ Count(c.card.category, "/") = Count(text, "/")
       /\ Len(c.record.category) = 0 => c.card.category = << >>

\* C6 witness: a card of a record whose categories begin with a prefix and
\* hold a slash
C6_Witness ==
  \E b \in Blocks : \E c \in CardsOf(b) :
    /\ c.record.category = <<<<"L","u","m","a","p","r","o","d","u","c","t","s",":","m","e","n","/","t","o","p","s">>, <<"l","u","m","a",":","s","a","l","e","/","n","e","w">>>>
    /\ c.card.category = <<"M","E","N"," ","/"," ","T","O","P","S",","," ","L","U","M","A",":","S","A","L","E"," ","/"," ","N","E","W">>

Identifier(record) == IF Len(record.sku) > 0 THEN record.sku ELSE record.id

\* the location a click on a card of that identifier leads to: the current
\* path up to its last "/", then product or product.html, then the
\* encoded identifier
IsProductHref(href, pathname, ident, author) ==
  \E k \in 1..Len(pathname) :
    /\ pathname[k] = "/"
    /\ \A j \in (k + 1)..Len(pathname) : pathname[j] # "/"
    /\ href = SubSeq(pathname, 1, k) \o <<"p","r","o","d","u","c","t">>
                \o (IF author THEN <<".","h","t","m","l">> ELSE << >>)
                \o <<"?","p","r","o","d","u","c","t","I","d","=">> \o EncodeURIComponent(ident)
    /\ DecodeURIComponent(ParamValue(href, <<"p","r","o","d","u","c","t","I","d">>)) = ident

\* C9: a card has the click handler iff the identifier of its record (sku,
\* else id) is not empty; a click on a card without it does not navigate,
\* and a click on a card with it assigns the product location.
C9_ClickableIffIdentified ==
  /\ \A b \in Blocks : \A c \in CardsOf(b) :
       /\ c.card.handler.attached <=> Len(Identifier(c.record)) > 0
       /\ c.card.handler.productId = Identifier(c.record)
  /\ lastClick.block # 0 =>
       IF lastClick.handler.attached
       THEN IsProductHref(location.href, location.pathname,
                          lastClick.handler.productId, isAuthor)
       ELSE location.href = << >>

\* C9 witness: the card of a record with neither sku nor id was clicked
C9_Witness ==
  /\ lastClick.block # 0
  /\ \E c \in CardsOf(lastClick.block) :
       /\ c.card = GridChildren(blockChildren[lastClick.block])[lastClick.index]
       /\ Len(c.record.sku) = 0 /\ Len(c.record.id) = 0
  /\ location.href = << >>

\* what decorate leaves in a block when it runs alone on that input
AloneItems(folderHref, response) ==
  IF Len(folderHref) = 0 \/ response.kind \in {"neterr", "nonjson"} THEN EmptyItems
  ELSE ExtractItems(response.json)

AloneStart(input, cqTags) ==
  Append(RenderHeader(<< >>, ExtractTags(input, cqTags)),
         [kind |-> "cpl-grid", children |-> << >>])

AloneResult(input, cqTags, response, author) ==
  AppendToGrid(AloneStart(input, cqTags),
               RenderItems(AloneItems(ResolveFolderHref(input), response), author).children)

AloneRequests(input, cqTags, author) ==
  LET folderHref == ResolveFolderHref(input)
  IN IF Len(folderHref) = 0 THEN << >>
     ELSE IF IsLegacyLuma3(folderHref)
          THEN <<[strategy |-> "legacy", url |-> FetchLegacyProductsUrl(folderHref, author)]>>
          ELSE <<[strategy |-> "modern",
                  url |-> FetchCategoryFilteredProductsUrl(folderHref, ExtractTags(input, cqTags), author)]>>

\* C10: with several invocations suspended at once, each block holds what
\* its own invocation alone would have put there, at every step and at the
\* end, and each invocation issued its own request only.
C10_BlocksIndependent ==
  \A b \in Blocks :
    /\ pc[b] \in {"fetching", "parsing", "resume"} =>
         blockChildren[b] = AloneStart(local[b].input, dataset[b])
    /\ pc[b] = "done" =>
         blockChildren[b] = AloneResult(local[b].input, dataset[b], endpoint[b], isAuthor)
    /\ Started(b) => requests[b] = AloneRequests(local[b].input, dataset[b], isAuthor)
    /\ (pc[b] = "idle" /\ Len(history[b]) = 0) => blockChildren[b] = authored[b]

\* C10 witness: the second block finished while the first was suspended,
\* then the first finished, and they hold different cards
C10_Witness ==
  /\ pc[1] = "done" /\ pc[2] = "done"
  /\ Len(history[1]) = 1 /\ Len(history[2]) = 1
  /\ history[2][1].overlapped
  /\ Len(GridChildren(blockChildren[1])) = 2
  /\ Len(GridChildren(blockChildren[2])) = 1
  /\ IsCard(GridChildren(blockChildren[2])[1])
  /\ requests[1] # requests[2]

=============================================================================
